---- MODULE Spec2Model ----
(***************************************************************************)
(* Model of plot::ExplicitSingleValueCurve2D (src/src/plot_explicit_2d.cpp *)
(* and its header, src/unnamed/part_002).                                  *)
(*                                                                         *)
(* Representation of numbers.  X values and query bounds are integers.  Y  *)
(* values are exact rationals held in fixed point with unit 1/Scale: the   *)
(* integer v stands for the real v/Scale.  Scale is a multiple of every    *)
(* possible difference of two x values, so that the linear interpolation   *)
(* of the code is exact in this representation.  Rounding of IEEE doubles  *)
(* is not modelled.                                                        *)
(*                                                                         *)
(* Reads outside an allocation are undefined behaviour.  A read of         *)
(* y_values_[j] with j >= size, and a read of intervals_[i] with           *)
(* i >= num_intervals, yields an arbitrary value, chosen afresh at every   *)
(* read (the memory is not owned by the curve); a build with checked       *)
(* element access stops the program at the read of the vector instead.     *)
(***************************************************************************)
EXTENDS Integers, Sequences, FiniteSets, TLC

\* ---------------------------------------------------------------- bounds
\* x values are drawn from 0..XMax; the first sample of a valid curve is at
\* 0, so that a valid curve has up to XMax + 1 samples
XMax == 4
\* largest length of an x sequence that is not strictly increasing
MaxBadLen == 3
\* number of threads of the concurrent client
NumThreads == 2
\* largest number of samples of a curve the concurrent client queries
ConcMaxN == 3
\* the concurrent client queries with bounds in 0..ConcMaxQ
ConcMaxQ == 3
\* largest number of samples of a curve the index client queries
MaxTreeN == 8

\* ------------------------------------------------------------- numbers
RECURSIVE Gcd(_, _)
Gcd(a, b) == IF b = 0 THEN a ELSE Gcd(b, a % b)

RECURSIVE LcmUpTo(_)
LcmUpTo(m) == IF m <= 1 THEN 1
              ELSE LET l == LcmUpTo(m - 1) IN (l * m) \div Gcd(l, m)

\* unit of the fixed-point representation of y values
Scale == LcmUpTo(XMax)

Min2(a, b) == IF a <= b THEN a ELSE b
Max2(a, b) == IF a >= b THEN a ELSE b

\* std::optional: std::nullopt is the empty tuple, an optional<double> with
\* a value is <<v>> and an optional<tuple<double, double>> with a value is
\* <<min, max>>
None == << >>
HasValue(o) == o # None
Some(v) == <<v>>
\* *o
Deref(o) == o[1]

\* the y values a client passes: a gap, 0.0 or 1.0
YVals == {None, Some(0), Some(Scale)}
\* a value no sample has (2.0): what a read past the end of a buffer may find
Poison == Scale + Scale
GarbageY == {None, Some(Poison)}

\* 1 << k
Shl1(k) == 2 ^ k

\* ------------------------------------------------------------ CeilingLog2
RECURSIVE CeilingLog2Loop(_, _, _)
CeilingLog2Loop(i, k, is_power_of_2) ==
    IF i > 0
    THEN CeilingLog2Loop(i \div 2, k + 1,
                         IF i > 1 /\ i % 2 = 1 THEN FALSE ELSE is_power_of_2)
    ELSE IF is_power_of_2 THEN k - 1 ELSE k

\* the number of binary digits of i
BitLength(i) == CeilingLog2Loop(i, 0, FALSE)

CeilingLog2(i) == CeilingLog2Loop(i, 0, TRUE)

\* ---------------------------------------------------- GetOneOf, GetMinMax
\* the two functions passed as comp_func: the lambdas of std::min and std::max
LambdaMin == "std::min"
LambdaMax == "std::max"
CallCompFunc(comp_func, x, y) == IF comp_func = LambdaMin THEN Min2(x, y) ELSE Max2(x, y)

GetOneOf(a, b, comp_func) ==
    IF HasValue(a) /\ HasValue(b) THEN Some(CallCompFunc(comp_func, Deref(a), Deref(b)))
    ELSE IF HasValue(a) THEN a
    ELSE IF HasValue(b) THEN b
    ELSE None

GetMinMax(a, b) ==
    IF HasValue(a) /\ HasValue(b)
    THEN <<Min2(Deref(a), Deref(b)), Max2(Deref(a), Deref(b))>>
    ELSE IF HasValue(a) THEN <<Deref(a), Deref(a)>>
    ELSE IF HasValue(b) THEN <<Deref(b), Deref(b)>>
    ELSE None

\* ------------------------------------------------------------------ state
VARIABLES
    status,      \* "unconstructed", "ready" (constructor returned),
                 \* "aborted" (PLOT_ASSERT called std::abort),
                 \* "crashed" (a checked read past the end of y_values_)
    x_values,    \* *x_values_, element i of the code is x_values[i + 1]
    y_values,    \* *y_values_, element i of the code is y_values[i + 1]
    intervals,   \* intervals_, a function on 0..num_intervals-1
    yreads,      \* the indices at which FillIntervals read y_values_
    q,           \* the last query made by the single-threaded client
    th           \* the threads of the concurrent client

vars == <<status, x_values, y_values, intervals, yreads, q, th>>

\* element i (counted from 0) of a vector
At(vec, i) == vec[i + 1]

ConstSeq(m, v) == [i \in 1..m |-> v]

\* Interval{} as value-initialized by std::make_unique<Interval[]>
ZeroInterval == [lo_idx |-> 0, hi_idx |-> 0, min_max |-> None]

\* --------------------------------------------------------- FillIntervals
\* (*y_values_)[j]; gy[j] is what the read finds when j is past the end
YRead(ys, gy, j) == IF j < Len(ys) THEN At(ys, j) ELSE gy[j]

\* the loop over the lowest layer, from node i with interval_start
RECURSIVE LowestLayerLoop(_, _, _, _, _, _, _)
LowestLayerLoop(ys, gy, k, i, layer_end, interval_start, ivs) ==
    IF i < layer_end
    THEN LET layer == k - 1
             lo == interval_start
             hi == interval_start + Shl1(k - layer) - 1
             node == [lo_idx  |-> lo,
                      hi_idx  |-> hi,
                      min_max |-> GetMinMax(YRead(ys, gy, lo), YRead(ys, gy, hi))]
         IN  LowestLayerLoop(ys, gy, k, i + 1, layer_end, hi + 1,
                             [ivs EXCEPT ![i] = node])
    ELSE ivs

\* a lowest layer left as allocated
LowestLayerUnfilled(ys, gy, k, ivs) == ivs

LowestLayer(ys, gy, k, ivs) ==
    LET layer == k - 1
        layer_start == Shl1(layer) - 1
        layer_end == layer_start + Shl1(layer)
    IN  LowestLayerLoop(ys, gy, k, layer_start, layer_end, 0, ivs)

\* the merge of the min_max of two child nodes
MergeMinMax(a, b) ==
    IF HasValue(a) /\ HasValue(b)
    THEN <<Min2(a[1], b[1]), Max2(a[2], b[2])>>
    ELSE IF HasValue(a) THEN a
    ELSE IF HasValue(b) THEN b
    ELSE None

\* the inner loop over one higher layer, from node i with interval_start
RECURSIVE HigherLayerLoop(_, _, _, _, _, _)
HigherLayerLoop(k, layer, i, layer_end, interval_start, ivs) ==
    IF i < layer_end
    THEN LET child_1 == 2 * i + 1
             child_2 == 2 * i + 2
             lo == interval_start
             hi == interval_start + Shl1(k - layer) - 1
             node == [lo_idx  |-> lo,
                      hi_idx  |-> hi,
                      min_max |-> MergeMinMax(ivs[child_1].min_max,
                                              ivs[child_2].min_max)]
         IN  HigherLayerLoop(k, layer, i + 1, layer_end, hi + 1,
                             [ivs EXCEPT ![i] = node])
    ELSE ivs

\* the outer loop over the higher layers, from layer down to 0
RECURSIVE HigherLayers(_, _, _)
HigherLayers(k, layer, ivs) ==
    IF layer >= 0
    THEN LET layer_start == Shl1(layer) - 1
             layer_end == layer_start + Shl1(layer)
         IN  HigherLayers(k, layer - 1,
                 HigherLayerLoop(k, layer, layer_start, layer_end, 0, ivs))
    ELSE ivs

FillIntervals(ys, gy, ivs) ==
    LET k == CeilingLog2(Len(ys))
    IN  HigherLayers(k, k - 2, LowestLayer(ys, gy, k, ivs))

\* the indices of y_values_ the lowest layer reads: lo_idx and hi_idx of
\* each of its 2^(k-1) nodes
FillYReads(n) ==
    LET k == CeilingLog2(n)
        num == Shl1(k) - 1
        ivs == LowestLayer(ConstSeq(n, None), [j \in 0 .. Shl1(k) |-> None], k,
                           [i \in 0 .. (num - 1) |-> ZeroInterval])
        layer_start == Shl1(k - 1) - 1
    IN  IF n > 1
        THEN UNION {{ivs[i].lo_idx, ivs[i].hi_idx} : i \in layer_start .. (num - 1)}
        ELSE {}

\* the reads of FillIntervals that fall past the end of y_values_
PastEnd(n) == {j \in FillYReads(n) : j >= n}

\* ------------------------------------------------------------ constructor
NumIntervals(n) == Shl1(CeilingLog2(n)) - 1

\* the three PLOT_ASSERTs of the constructor
AssertsHold(xs, ys) ==
    /\ Len(xs) = Len(ys)
    /\ Len(xs) # 0
    /\ \A i \in 1 .. (Len(xs) - 1) : At(xs, i) > At(xs, i - 1)

\* the sequences a client can pass
SeqsUpTo(S, n) == UNION {[1..m -> S] : m \in 0..n}
StrictlyIncreasing(xs) == \A i \in 1 .. (Len(xs) - 1) : At(xs, i) > At(xs, i - 1)
MaxN == XMax + 1

\* the elements of a set of numbers in increasing order
RECURSIVE Sorted(_)
Sorted(S) ==
    IF S = {} THEN << >>
    ELSE LET m == CHOOSE v \in S : \A w \in S : v <= w
         IN  <<m>> \o Sorted(S \ {m})

\* the strictly increasing x sequences that start at 0
ValidXSeqs == {<<0>> \o Sorted(S) : S \in SUBSET (1..XMax)}
\* the x sequences that fail an assertion
BadXSeqs == {xs \in SeqsUpTo(0..XMax, MaxBadLen) : Len(xs) = 0 \/ ~StrictlyIncreasing(xs)}

\* the argument pairs tried: every valid x sequence with every y sequence of
\* its length and with a y sequence of every other length, and every bad x
\* sequence with a y sequence of its length
Inputs ==
    {<<xs, ys>> \in ValidXSeqs \X SeqsUpTo(YVals, MaxN) : Len(xs) = Len(ys)}
    \cup {<<xs, ConstSeq(Len(xs), Some(0))>> : xs \in BadXSeqs}
    \cup {<<xs, ConstSeq(m, Some(0))>> : xs \in ValidXSeqs, m \in 0..MaxN}

\* the constructor returns
Construct(xs, ys) ==
    /\ status = "unconstructed"
    /\ AssertsHold(xs, ys)
    /\ LET n == Len(ys)
           num_intervals == NumIntervals(n)
           ivs0 == [i \in 0 .. (num_intervals - 1) |-> ZeroInterval]
       IN  \E gy \in [PastEnd(n) -> GarbageY] :
             /\ intervals' = IF n > 1 THEN FillIntervals(ys, gy, ivs0) ELSE ivs0
             /\ yreads' = FillYReads(n)
    /\ x_values' = xs
    /\ y_values' = ys
    /\ status' = "ready"
    /\ UNCHANGED <<q, th>>

\* a PLOT_ASSERT fails: std::abort
ConstructAbort(xs, ys) ==
    /\ status = "unconstructed"
    /\ ~AssertsHold(xs, ys)
    /\ x_values' = xs
    /\ y_values' = ys
    /\ status' = "aborted"
    /\ UNCHANGED <<intervals, yreads, q, th>>

\* FillIntervals reads y_values_ past its end and the build checks the
\* index (the behaviour is undefined): the program stops in the constructor
ConstructCrash(xs, ys) ==
    /\ status = "unconstructed"
    /\ AssertsHold(xs, ys)
    /\ Len(ys) > 1
    /\ PastEnd(Len(ys)) # {}
    /\ x_values' = xs
    /\ y_values' = ys
    /\ yreads' = FillYReads(Len(ys))
    /\ status' = "crashed"
    /\ UNCHANGED <<intervals, q, th>>

\* ------------------------------------------- GetMinMaxOverIndexInterval
\* what a read of intervals_ past the end of the array may find
GarbageNodes == [lo_idx : 0..1, hi_idx : 0..1, min_max : {None, <<Poison, Poison>>}]

\* intervals_[i]; g is what the read finds when i is past the end
IvRead(ivs, g, i) == IF i \in DOMAIN ivs THEN ivs[i] ELSE g

\* the merge of the results of the two recursive calls
MergePartials(partial1, partial2) ==
    IF HasValue(partial1) /\ HasValue(partial2)
    THEN <<Min2(partial1[1], partial2[1]), Max2(partial1[2], partial2[2])>>
    ELSE IF HasValue(partial1) THEN partial1
    ELSE IF HasValue(partial2) THEN partial2
    ELSE None

\* one entry of the record of a descent: the arguments of the call and the
\* branch it took
Visit(lo_idx, hi_idx, interval_idx, branch) ==
    [lo |-> lo_idx, hi |-> hi_idx, idx |-> interval_idx, branch |-> branch]

\* a descent without the test for the node that records (lo_idx, hi_idx)
\* itself: it goes on to the single indices
RECURSIVE DescendToSingles(_, _, _, _, _, _)
DescendToSingles(ivs, ys, g, lo_idx, hi_idx, interval_idx) ==
    LET child1_idx == 2 * interval_idx + 1
        child2_idx == 2 * interval_idx + 2
        child1 == IvRead(ivs, g, child1_idx)
        child2 == IvRead(ivs, g, child2_idx)
        here == {interval_idx, child1_idx, child2_idx}
    IN
    IF lo_idx = hi_idx \/ interval_idx \notin DOMAIN ivs
    THEN [mm |-> None,
          visits |-> <<Visit(lo_idx, hi_idx, interval_idx,
                             IF lo_idx = hi_idx THEN "single" ELSE "wild")>>,
          reads |-> {interval_idx}]
    ELSE IF lo_idx >= child1.lo_idx /\ hi_idx <= child1.hi_idx
    THEN LET r == DescendToSingles(ivs, ys, g, lo_idx, hi_idx, child1_idx)
         IN  [mm |-> r.mm,
              visits |-> <<Visit(lo_idx, hi_idx, interval_idx, "child1")>> \o r.visits,
              reads |-> here \cup r.reads]
    ELSE IF lo_idx >= child2.lo_idx /\ hi_idx <= child2.hi_idx
    THEN LET r == DescendToSingles(ivs, ys, g, lo_idx, hi_idx, child2_idx)
         IN  [mm |-> r.mm,
              visits |-> <<Visit(lo_idx, hi_idx, interval_idx, "child2")>> \o r.visits,
              reads |-> here \cup r.reads]
    ELSE LET partial1 == DescendToSingles(ivs, ys, g, lo_idx, child1.hi_idx, child1_idx)
             partial2 == DescendToSingles(ivs, ys, g, child2.lo_idx, hi_idx, child2_idx)
         IN  [mm |-> None,
              visits |-> <<Visit(lo_idx, hi_idx, interval_idx, "split")>>
                         \o partial1.visits \o partial2.visits,
              reads |-> here \cup partial1.reads \cup partial2.reads]

\* The result is [mm |-> the returned optional, visits |-> the calls made,
\* in the order of their start, reads |-> the indices at which intervals_
\* was read].  A call on a node past the end of the array that neither
\* matches nor has lo_idx = hi_idx goes on through memory that is not the
\* tree: branch "wild", any result.
RECURSIVE GetMinMaxOverIndexInterval(_, _, _, _, _, _)
GetMinMaxOverIndexInterval(ivs, ys, g, lo_idx, hi_idx, interval_idx) ==
    LET node == IvRead(ivs, g, interval_idx)
    IN
    IF node.lo_idx = lo_idx /\ node.hi_idx = hi_idx
    THEN [mm |-> node.min_max,
          visits |-> <<Visit(lo_idx, hi_idx, interval_idx, "exact")>>,
          reads |-> {interval_idx}]
    ELSE IF lo_idx = hi_idx
    THEN [mm |-> IF HasValue(At(ys, lo_idx))
                 THEN <<Deref(At(ys, lo_idx)), Deref(At(ys, lo_idx))>>
                 ELSE None,
          visits |-> <<Visit(lo_idx, hi_idx, interval_idx, "single")>>,
          reads |-> {interval_idx}]
    ELSE
    LET child1_idx == 2 * interval_idx + 1
        child2_idx == 2 * interval_idx + 2
        child1 == IvRead(ivs, g, child1_idx)
        child2 == IvRead(ivs, g, child2_idx)
        here == {interval_idx, child1_idx, child2_idx}
    IN
    IF interval_idx \notin DOMAIN ivs
    THEN [mm |-> g.min_max,
          visits |-> <<Visit(lo_idx, hi_idx, interval_idx, "wild")>>,
          reads |-> here]
    ELSE IF lo_idx >= child1.lo_idx /\ hi_idx <= child1.hi_idx
    THEN LET r == GetMinMaxOverIndexInterval(ivs, ys, g, lo_idx, hi_idx, child1_idx)
         IN  [mm |-> r.mm,
              visits |-> <<Visit(lo_idx, hi_idx, interval_idx, "child1")>> \o r.visits,
              reads |-> here \cup r.reads]
    ELSE IF lo_idx >= child2.lo_idx /\ hi_idx <= child2.hi_idx
    THEN LET r == GetMinMaxOverIndexInterval(ivs, ys, g, lo_idx, hi_idx, child2_idx)
         IN  [mm |-> r.mm,
              visits |-> <<Visit(lo_idx, hi_idx, interval_idx, "child2")>> \o r.visits,
              reads |-> here \cup r.reads]
    ELSE LET partial1 == GetMinMaxOverIndexInterval(ivs, ys, g, lo_idx, child1.hi_idx, child1_idx)
             partial2 == GetMinMaxOverIndexInterval(ivs, ys, g, child2.lo_idx, hi_idx, child2_idx)
         IN  [mm |-> MergePartials(partial1.mm, partial2.mm),
              visits |-> <<Visit(lo_idx, hi_idx, interval_idx, "split")>>
                         \o partial1.visits \o partial2.visits,
              reads |-> here \cup partial1.reads \cup partial2.reads]

\* The results GetMinMaxOverIndexInterval(lo_idx, hi_idx, 0) can return:
\* one when all its reads of intervals_ are inside the array (what a read
\* past the end finds is then never used), and one for each value that such
\* a read may find otherwise.
IndexOutcomes(ivs, ys, lo_idx, hi_idx) ==
    LET r0 == GetMinMaxOverIndexInterval(ivs, ys, ZeroInterval, lo_idx, hi_idx, 0)
    IN  IF r0.reads \subseteq DOMAIN ivs
        THEN {r0}
        ELSE {GetMinMaxOverIndexInterval(ivs, ys, g, lo_idx, hi_idx, 0) :
                g \in GarbageNodes}

\* ------------------------------------------- GetMinMaxOverDomainInterval
\* a lower_bound that never returns the size
LowerBoundClamped(xs, v) ==
    IF \E i \in 0 .. (Len(xs) - 1) : At(xs, i) >= v
    THEN CHOOSE i \in 0 .. (Len(xs) - 1) :
            /\ At(xs, i) >= v
            /\ \A j \in 0 .. (i - 1) : At(xs, j) < v
    ELSE Len(xs) - 1

\* std::lower_bound: the index of the first element >= v, or the size
LowerBound(xs, v) ==
    IF \E i \in 0 .. (Len(xs) - 1) : At(xs, i) >= v
    THEN CHOOSE i \in 0 .. (Len(xs) - 1) :
            /\ At(xs, i) >= v
            /\ \A j \in 0 .. (i - 1) : At(xs, j) < v
    ELSE Len(xs)

\* std::upper_bound: the index of the first element > v, or the size
UpperBound(xs, v) ==
    IF \E i \in 0 .. (Len(xs) - 1) : At(xs, i) > v
    THEN CHOOSE i \in 0 .. (Len(xs) - 1) :
            /\ At(xs, i) > v
            /\ \A j \in 0 .. (i - 1) : At(xs, j) <= v
    ELSE Len(xs)

\* y0 + (xq - x0) / (x1 - x0) * (y1 - y0), exact: x1 - x0 divides Scale and
\* Scale divides y1 - y0
Interpolate(x0, x1, y0, y1, xq) == y0 + ((xq - x0) * (y1 - y0)) \div (x1 - x0)

\* a lo_interp without the has_value tests, a gap read as 0
LoInterpNoGapCheck(xs, ys, lo_idx, xmin) ==
    IF /\ At(xs, lo_idx) > xmin
       /\ lo_idx > 0
       /\ At(xs, lo_idx - 1) # At(xs, lo_idx)
    THEN Some(Interpolate(At(xs, lo_idx - 1), At(xs, lo_idx),
                     IF HasValue(At(ys, lo_idx - 1)) THEN Deref(At(ys, lo_idx - 1)) ELSE 0,
                     IF HasValue(At(ys, lo_idx)) THEN Deref(At(ys, lo_idx)) ELSE 0, xmin))
    ELSE None

\* lo_interp
LoInterp(xs, ys, lo_idx, xmin) ==
    IF /\ At(xs, lo_idx) > xmin
       /\ lo_idx > 0
       /\ HasValue(At(ys, lo_idx))
       /\ HasValue(At(ys, lo_idx - 1))
       /\ At(xs, lo_idx - 1) # At(xs, lo_idx)
    THEN Some(Interpolate(At(xs, lo_idx - 1), At(xs, lo_idx),
                          Deref(At(ys, lo_idx - 1)), Deref(At(ys, lo_idx)), xmin))
    ELSE None

\* hi_interp
HiInterp(xs, ys, hi_idx, xmax) ==
    IF /\ hi_idx < Len(xs) - 1
       /\ At(xs, hi_idx) # xmax
       /\ At(xs, hi_idx + 1) > xmax
       /\ HasValue(At(ys, hi_idx))
       /\ At(xs, hi_idx + 1) # At(xs, hi_idx)
       /\ HasValue(At(ys, hi_idx + 1))
    THEN Some(Interpolate(At(xs, hi_idx), At(xs, hi_idx + 1),
                          Deref(At(ys, hi_idx)), Deref(At(ys, hi_idx + 1)), xmax))
    ELSE None

\* the statements after min_max_inside_interval is known
MergeResult(lo_interp, hi_interp, inside) ==
    IF HasValue(inside)
    THEN LET min_interp == GetOneOf(lo_interp, hi_interp, LambdaMin)
             max_interp == GetOneOf(lo_interp, hi_interp, LambdaMax)
             actual_min == GetOneOf(min_interp, Some(inside[1]), LambdaMin)
             actual_max == GetOneOf(max_interp, Some(inside[2]), LambdaMax)
         IN  IF HasValue(actual_min) /\ HasValue(actual_max)
             THEN <<Deref(actual_min), Deref(actual_max)>>
             ELSE IF HasValue(actual_min) THEN <<Deref(actual_min), Deref(actual_min)>>
             ELSE IF HasValue(actual_max) THEN <<Deref(actual_max), Deref(actual_max)>>
             ELSE None
    ELSE GetMinMax(lo_interp, hi_interp)

NoVisits == << >>
NoCall == [mm |-> None, visits |-> NoVisits, reads |-> {}]
EarlyReturn == [mm |-> None, visits |-> NoVisits, reads |-> {},
                lo_interp |-> None, hi_interp |-> None]

\* The result is [mm |-> the returned optional, visits |-> the calls of
\* GetMinMaxOverIndexInterval made, reads |-> the indices at which
\* intervals_ was read, lo_interp and hi_interp |-> the locals of these
\* names when the function returns].
GetMinMaxOverDomainInterval(xs, ys, ivs, g, xmin, xmax) ==
    LET lo_bound == LowerBound(xs, xmin)
        hi_bound == UpperBound(xs, xmax)
    IN
    IF lo_bound = Len(xs) THEN EarlyReturn
    ELSE IF hi_bound = 0 THEN EarlyReturn
    ELSE
    LET lo_idx == lo_bound
        hi_idx == hi_bound - 1
        lo_interp == LoInterp(xs, ys, lo_idx, xmin)
        hi_interp == HiInterp(xs, ys, hi_idx, xmax)
        inside == IF hi_idx >= lo_idx
                  THEN GetMinMaxOverIndexInterval(ivs, ys, g, lo_idx, hi_idx, 0)
                  ELSE NoCall
    IN  [mm |-> MergeResult(lo_interp, hi_interp, inside.mm),
         visits |-> inside.visits,
         reads |-> inside.reads,
         lo_interp |-> lo_interp,
         hi_interp |-> hi_interp]

\* the results GetMinMaxOverDomainInterval(xmin, xmax) can return
DomainOutcomes(xs, ys, ivs, xmin, xmax) ==
    LET r0 == GetMinMaxOverDomainInterval(xs, ys, ivs, ZeroInterval, xmin, xmax)
    IN  IF r0.reads \subseteq DOMAIN ivs
        THEN {r0}
        ELSE {GetMinMaxOverDomainInterval(xs, ys, ivs, g, xmin, xmax) :
                g \in GarbageNodes}

\* ---------------------------------------------- the single-threaded client
\* The client makes one call at a time and holds the result of its last call
\* in q.  After a call it either makes the same call again or drops the
\* result (Forget) and is then free to make any call.

\* the bounds a client queries with
QPoints == (0 - 1) .. (XMax + 1)

NoQuery == [op |-> "none", a |-> 0, b |-> 0, mm |-> None,
            visits |-> NoVisits, reads |-> {},
            lo_interp |-> None, hi_interp |-> None]

\* plot.GetMinMaxOverDomainInterval(xmin, xmax)
Query(xmin, xmax) ==
    /\ status = "ready"
    /\ q = NoQuery \/ (q.op = "domain" /\ q.a = xmin /\ q.b = xmax)
    /\ \E r \in DomainOutcomes(x_values, y_values, intervals, xmin, xmax) :
         q' = [op |-> "domain", a |-> xmin, b |-> xmax, mm |-> r.mm,
               visits |-> r.visits, reads |-> r.reads,
               lo_interp |-> r.lo_interp, hi_interp |-> r.hi_interp]
    /\ UNCHANGED <<status, x_values, y_values, intervals, yreads, th>>

\* GetMinMaxOverIndexInterval(lo_idx, hi_idx, 0), called within its
\* precondition 0 <= lo_idx <= hi_idx < n
QueryIndex(lo_idx, hi_idx) ==
    /\ status = "ready"
    /\ q = NoQuery \/ (q.op = "index" /\ q.a = lo_idx /\ q.b = hi_idx)
    /\ 0 <= lo_idx /\ lo_idx <= hi_idx /\ hi_idx < Len(y_values)
    /\ \E r \in IndexOutcomes(intervals, y_values, lo_idx, hi_idx) :
         q' = [op |-> "index", a |-> lo_idx, b |-> hi_idx, mm |-> r.mm,
               visits |-> r.visits, reads |-> r.reads,
               lo_interp |-> None, hi_interp |-> None]
    /\ UNCHANGED <<status, x_values, y_values, intervals, yreads, th>>

\* the client drops the result of its last call
Forget ==
    /\ status = "ready"
    /\ q # NoQuery
    /\ q' = NoQuery
    /\ UNCHANGED <<status, x_values, y_values, intervals, yreads, th>>

\* a thread that is not inside a call
IdleThread == [pc |-> "idle", xmin |-> 0, xmax |-> 0, lo_idx |-> 0, hi_idx |-> 0,
               lo_interp |-> None, hi_interp |-> None,
               stack |-> << >>, ret |-> None, mm |-> None]
NoThreads == [t \in 1..NumThreads |-> IdleThread]

Init ==
    /\ status = "unconstructed"
    /\ x_values = << >>
    /\ y_values = << >>
    /\ intervals = << >>
    /\ yreads = {}
    /\ q = NoQuery
    /\ th = NoThreads

Next ==
    \/ status = "unconstructed" /\ \E in \in Inputs : Construct(in[1], in[2])
    \/ status = "unconstructed" /\ \E in \in Inputs : ConstructAbort(in[1], in[2])
    \/ status = "unconstructed" /\ \E in \in Inputs : ConstructCrash(in[1], in[2])
    \/ status = "ready" /\ \E xmin \in QPoints, xmax \in QPoints : Query(xmin, xmax)
    \/ status = "ready" /\ \E lo_idx \in 0 .. (MaxN - 1), hi_idx \in 0 .. (MaxN - 1) :
                            QueryIndex(lo_idx, hi_idx)
    \/ Forget

Spec == Init /\ [][Next]_vars

\* -------------------------------------------------- the concurrent client
\* Threads 1..NumThreads call GetMinMaxOverDomainInterval on the one curve,
\* with no lock.  A call runs in steps, and the steps of the threads
\* interleave: the two binary searches (ThreadBounds), the two
\* interpolations (ThreadInterp), each call of GetMinMaxOverIndexInterval
\* up to its return or its next call (ThreadDescend), each return into a
\* waiting call (ThreadReturn), and the final merge (ThreadMerge).  The
\* locals of a call are in th[t]; th[t].stack holds the calls of
\* GetMinMaxOverIndexInterval in progress, the innermost last.

Threads == 1..NumThreads

\* the curves of the concurrent client: samples at 0, 2, 4, ...
ConcInputs ==
    {in \in Inputs : /\ AssertsHold(in[1], in[2])
                     /\ Len(in[1]) <= ConcMaxN
                     /\ \A i \in 1 .. Len(in[1]) : in[1][i] = 2 * (i - 1)}
ConcQPoints == 0 .. ConcMaxQ

\* a call of GetMinMaxOverIndexInterval in progress: "enter" before its
\* first statement, "wait1" inside the call that computes partial1, "wait2"
\* inside the call that computes partial2
Frame(lo_idx, hi_idx, interval_idx, stage, partial1) ==
    [lo |-> lo_idx, hi |-> hi_idx, idx |-> interval_idx, stage |-> stage,
     partial1 |-> partial1]

Top(stack) == stack[Len(stack)]
Pop(stack) == SubSeq(stack, 1, Len(stack) - 1)

\* the step of thread t changes th[t] to rec and nothing else
ThreadSets(t, rec) ==
    /\ th' = [th EXCEPT ![t] = rec]
    /\ UNCHANGED <<status, x_values, y_values, intervals, yreads, q>>

\* thread t enters GetMinMaxOverDomainInterval(xmin, xmax)
ThreadCall(t, xmin, xmax) ==
    /\ status = "ready"
    /\ th[t].pc = "idle"
    /\ ThreadSets(t, [IdleThread EXCEPT !.pc = "bounds", !.xmin = xmin, !.xmax = xmax])

\* lower_bound, upper_bound and the two early returns
ThreadBounds(t) ==
    /\ th[t].pc = "bounds"
    /\ LET lo_bound == LowerBound(x_values, th[t].xmin)
           hi_bound == UpperBound(x_values, th[t].xmax)
       IN  IF lo_bound = Len(x_values) \/ hi_bound = 0
           THEN ThreadSets(t, [th[t] EXCEPT !.pc = "done", !.mm = None])
           ELSE ThreadSets(t, [th[t] EXCEPT !.pc = "interp",
                                            !.lo_idx = lo_bound,
                                            !.hi_idx = hi_bound - 1])

\* lo_interp, hi_interp and the test hi_idx >= lo_idx
ThreadInterp(t) ==
    /\ th[t].pc = "interp"
    /\ LET me == th[t]
           lo_interp == LoInterp(x_values, y_values, me.lo_idx, me.xmin)
           hi_interp == HiInterp(x_values, y_values, me.hi_idx, me.xmax)
       IN  IF me.hi_idx >= me.lo_idx
           THEN ThreadSets(t, [me EXCEPT !.pc = "call",
                                         !.lo_interp = lo_interp,
                                         !.hi_interp = hi_interp,
                                         !.stack = <<Frame(me.lo_idx, me.hi_idx, 0, "enter", None)>>])
           ELSE ThreadSets(t, [me EXCEPT !.pc = "merge",
                                         !.lo_interp = lo_interp,
                                         !.hi_interp = hi_interp,
                                         !.ret = None])

\* the reads of intervals_ of one call: every value for a read past the end
GarbageAt(reads) == IF reads \subseteq DOMAIN intervals THEN {ZeroInterval} ELSE GarbageNodes

\* the innermost call of GetMinMaxOverIndexInterval, from its first statement
\* to its return or to the call it makes
ThreadDescend(t) ==
    /\ th[t].pc = "call"
    /\ LET me == th[t]
           f == Top(me.stack)
           child1_idx == 2 * f.idx + 1
           child2_idx == 2 * f.idx + 2
       IN  \E g \in GarbageAt({f.idx}) :
             LET node == IvRead(intervals, g, f.idx)
             IN
             IF node.lo_idx = f.lo /\ node.hi_idx = f.hi
             THEN ThreadSets(t, [me EXCEPT !.pc = "return", !.ret = node.min_max,
                                           !.stack = Pop(me.stack)])
             ELSE IF f.lo = f.hi
             THEN ThreadSets(t, [me EXCEPT !.pc = "return",
                                           !.ret = IF HasValue(At(y_values, f.lo))
                                                   THEN <<Deref(At(y_values, f.lo)),
                                                          Deref(At(y_values, f.lo))>>
                                                   ELSE None,
                                           !.stack = Pop(me.stack)])
             ELSE \E g1 \in GarbageAt({child1_idx}), g2 \in GarbageAt({child2_idx}) :
               LET child1 == IvRead(intervals, g1, child1_idx)
                   child2 == IvRead(intervals, g2, child2_idx)
               IN
               IF f.lo >= child1.lo_idx /\ f.hi <= child1.hi_idx
               THEN ThreadSets(t, [me EXCEPT !.stack = Pop(me.stack) \o
                                        <<Frame(f.lo, f.hi, child1_idx, "enter", None)>>])
               ELSE IF f.lo >= child2.lo_idx /\ f.hi <= child2.hi_idx
               THEN ThreadSets(t, [me EXCEPT !.stack = Pop(me.stack) \o
                                        <<Frame(f.lo, f.hi, child2_idx, "enter", None)>>])
               ELSE ThreadSets(t, [me EXCEPT !.stack = Pop(me.stack) \o
                                        <<Frame(f.lo, f.hi, f.idx, "wait1", None),
                                          Frame(f.lo, child1.hi_idx, child1_idx, "enter", None)>>])

\* a call of GetMinMaxOverIndexInterval has returned th[t].ret: into
\* GetMinMaxOverDomainInterval, into partial1 (and the call for partial2
\* starts) or into partial2 (and the merged result is returned)
ThreadReturn(t) ==
    /\ th[t].pc = "return"
    /\ LET me == th[t]
       IN  IF me.stack = << >>
           THEN ThreadSets(t, [me EXCEPT !.pc = "merge"])
           ELSE LET f == Top(me.stack)
                    child2_idx == 2 * f.idx + 2
                IN  IF f.stage = "wait1"
                    THEN \E g2 \in GarbageAt({child2_idx}) :
                           ThreadSets(t, [me EXCEPT
                               !.pc = "call",
                               !.stack = Pop(me.stack) \o
                                   <<Frame(f.lo, f.hi, f.idx, "wait2", me.ret),
                                     Frame(IvRead(intervals, g2, child2_idx).lo_idx,
                                           f.hi, child2_idx, "enter", None)>>])
                    ELSE ThreadSets(t, [me EXCEPT
                               !.ret = MergePartials(f.partial1, me.ret),
                               !.stack = Pop(me.stack)])

\* the statements after min_max_inside_interval is known, and the return
ThreadMerge(t) ==
    /\ th[t].pc = "merge"
    /\ ThreadSets(t, [th[t] EXCEPT
           !.pc = "done",
           !.mm = MergeResult(th[t].lo_interp, th[t].hi_interp, th[t].ret)])

\* the caller has taken the result
ThreadFinish(t) ==
    /\ th[t].pc = "done"
    /\ ThreadSets(t, IdleThread)

NextConc ==
    \/ status = "unconstructed" /\ \E in \in ConcInputs : Construct(in[1], in[2])
    \/ status = "ready" /\ \E t \in Threads, xmin \in ConcQPoints, xmax \in ConcQPoints :
                              xmin <= xmax /\ ThreadCall(t, xmin, xmax)
    \/ \E t \in Threads : ThreadBounds(t)
    \/ \E t \in Threads : ThreadInterp(t)
    \/ \E t \in Threads : ThreadDescend(t)
    \/ \E t \in Threads : ThreadReturn(t)
    \/ \E t \in Threads : ThreadMerge(t)
    \/ \E t \in Threads : ThreadFinish(t)

SpecConc == Init /\ [][NextConc]_vars

\* ------------------------------------------------------- the index client
\* The client builds a curve of up to MaxTreeN samples at 0, 1, 2, ... and
\* calls GetMinMaxOverIndexInterval(lo_idx, hi_idx, 0) within its
\* precondition.  The path of a call through the tree does not depend on
\* the values, so the curves are the ones of all values and of all gaps.

TreeInputs ==
    {<<[i \in 1..n |-> i - 1], ConstSeq(n, v)>> : n \in 1..MaxTreeN, v \in {Some(Scale), None}}

NextTree ==
    \/ status = "unconstructed" /\ \E in \in TreeInputs : Construct(in[1], in[2])
    \/ status = "unconstructed" /\ \E in \in TreeInputs : ConstructCrash(in[1], in[2])
    \/ status = "ready" /\ \E lo_idx \in 0 .. (MaxTreeN - 1), hi_idx \in 0 .. (MaxTreeN - 1) :
                            QueryIndex(lo_idx, hi_idx)
    \/ Forget

SpecTree == Init /\ [][NextTree]_vars

\* ================================================================ claims
\* the number of samples
N == Len(y_values)
X(i) == At(x_values, i)
Y(i) == At(y_values, i)

SetMin(S) == CHOOSE v \in S : \A w \in S : v <= w
SetMax(S) == CHOOSE v \in S : \A w \in S : v >= w
\* (min, max) of a set of values, empty for the empty set
MinMaxOf(S) == IF S = {} THEN None ELSE <<SetMin(S), SetMax(S)>>

\* the non-gap values of y[lo..hi], as a linear scan collects them
ScanValues(lo, hi) == {Deref(Y(i)) : i \in {j \in lo..hi : j < N /\ HasValue(Y(j))}}
ScanMinMax(lo, hi) == MinMaxOf(ScanValues(lo, hi))

IsIndexQuery == status = "ready" /\ q.op = "index"
IsDomainQuery == status = "ready" /\ q.op = "domain"

\* C1: GetMinMaxOverIndexInterval(lo, hi, 0) with 0 <= lo <= hi < n returns
\* the (min, max) of the non-gap values of y[lo..hi] as a linear scan finds
\* them, and nullopt exactly when all of y[lo..hi] are gaps, for every curve
\* of n >= 1 samples.
C1_IndexQueryIsLinearScan ==
    IsIndexQuery => q.mm = ScanMinMax(q.a, q.b)

\* C1 on the curves of two samples or more, where it holds
C1_IndexQueryIsLinearScanFrom2 ==
    (IsIndexQuery /\ N >= 2) => q.mm = ScanMinMax(q.a, q.b)

\* C2: GetMinMaxOverDomainInterval(x[0], x[n-1]) is the linear-scan
\* (min, max) of all the non-gap values, and nullopt exactly when every value
\* is a gap, for every curve of n >= 1 samples.
C2_FullDomainIsLinearScan ==
    (IsDomainQuery /\ q.a = X(0) /\ q.b = X(N - 1)) => q.mm = ScanMinMax(0, N - 1)

\* C2 on the curves of two samples or more, where it holds
C2_FullDomainIsLinearScanFrom2 ==
    (IsDomainQuery /\ N >= 2 /\ q.a = X(0) /\ q.b = X(N - 1))
        => q.mm = ScanMinMax(0, N - 1)

\* the set S of C3: (a) the non-gap samples inside [xmin, xmax], (b) the
\* value at xmin on the segment between two adjacent non-gap samples that
\* xmin lies strictly between, (c) the same at xmax
SamplesIn(xmin, xmax) ==
    {Deref(Y(i)) : i \in {j \in 0 .. (N - 1) : HasValue(Y(j)) /\ xmin <= X(j) /\ X(j) <= xmax}}
BoundaryAt(xq) ==
    {Interpolate(X(i - 1), X(i), Deref(Y(i - 1)), Deref(Y(i)), xq) :
        i \in {j \in 1 .. (N - 1) : /\ X(j - 1) < xq /\ xq < X(j)
                                    /\ HasValue(Y(j - 1)) /\ HasValue(Y(j))}}
RefS(xmin, xmax) == SamplesIn(xmin, xmax) \cup BoundaryAt(xmin) \cup BoundaryAt(xmax)

\* C3: for xmin <= xmax, GetMinMaxOverDomainInterval(xmin, xmax) returns the
\* (min, max) of the set S of the samples inside [xmin, xmax] and of the
\* interpolated values at the two bounds, and nullopt exactly when S is
\* empty, for every valid curve.
C3_DomainQueryIsMinMaxOfS ==
    (IsDomainQuery /\ q.a <= q.b) => q.mm = MinMaxOf(RefS(q.a, q.b))

\* C3 on the curves of two samples or more, where it holds
C3_DomainQueryIsMinMaxOfSFrom2 ==
    (IsDomainQuery /\ N >= 2 /\ q.a <= q.b) => q.mm = MinMaxOf(RefS(q.a, q.b))

\* C4: GetMinMaxOverDomainInterval returns nullopt, as a normal result and
\* without reading the tree, whenever xmin > x[n-1] and whenever xmax < x[0].
C4_OutsideDomainIsEmpty ==
    (IsDomainQuery /\ (q.a > X(N - 1) \/ q.b < X(0)))
        => (q.mm = None /\ q.visits = NoVisits /\ q.reads = {})

\* a query above the samples of a curve whose last sample has a value
C4_Witness ==
    IsDomainQuery /\ q.a > X(N - 1) /\ q.a <= q.b /\ HasValue(Y(N - 1)) /\ q.mm = None

\* xq lies strictly between two adjacent samples of which one is a gap
BracketHasGap(xq) ==
    \E i \in 1 .. (N - 1) : /\ X(i - 1) < xq /\ xq < X(i)
                            /\ (~HasValue(Y(i - 1)) \/ ~HasValue(Y(i)))

\* C5: interpolation never reaches across a gap: a gap at either sample
\* that brackets xmin (xmax) leaves lo_interp (hi_interp) empty, and the
\* returned min and max are each a non-gap sample inside [xmin, xmax] or an
\* interpolation between two adjacent non-gap samples.
C5_NoInterpolationAcrossGap ==
    IsDomainQuery =>
        /\ BracketHasGap(q.a) => q.lo_interp = None
        /\ BracketHasGap(q.b) => q.hi_interp = None
        /\ HasValue(q.mm) => {q.mm[1], q.mm[2]} \subseteq RefS(q.a, q.b)

\* C5 on the curves of two samples or more, where it holds
C5_NoInterpolationAcrossGapFrom2 ==
    (IsDomainQuery /\ N >= 2) =>
        /\ BracketHasGap(q.a) => q.lo_interp = None
        /\ BracketHasGap(q.b) => q.hi_interp = None
        /\ HasValue(q.mm) => {q.mm[1], q.mm[2]} \subseteq RefS(q.a, q.b)

\* x[i] < xmin <= xmax < x[i+1]
InSameGap(i, xmin, xmax) ==
    i \in 0 .. (N - 2) /\ X(i) < xmin /\ xmin <= xmax /\ xmax < X(i + 1)

\* C6: when x[i] < xmin <= xmax < x[i+1], GetMinMaxOverDomainInterval does
\* not read the tree and returns (min(L, U), max(L, U)) of the values L at
\* xmin and U at xmax on the segment from sample i to sample i+1 when both
\* have a value, and nullopt when either is a gap.
C6_SameGapIsBoundaryMerge ==
    IsDomainQuery =>
        \A i \in 0 .. (N - 2) :
            InSameGap(i, q.a, q.b) =>
                LET L == Interpolate(X(i), X(i + 1), Deref(Y(i)), Deref(Y(i + 1)), q.a)
                    U == Interpolate(X(i), X(i + 1), Deref(Y(i)), Deref(Y(i + 1)), q.b)
                IN  /\ q.visits = NoVisits
                    /\ q.reads = {}
                    /\ q.mm = IF HasValue(Y(i)) /\ HasValue(Y(i + 1))
                              THEN <<Min2(L, U), Max2(L, U)>>
                              ELSE None

\* a query inside one gap between two samples with different values
C6_Witness ==
    /\ IsDomainQuery
    /\ \E i \in 0 .. (N - 2) : InSameGap(i, q.a, q.b)
    /\ q.a < q.b
    /\ HasValue(q.mm)
    /\ q.mm[1] < q.mm[2]

\* C7: construction aborts through PLOT_ASSERT, and no query runs, if the
\* lengths differ, the sequences are empty or some x[i] <= x[i-1]; and it
\* succeeds for every pair of non-empty sequences of equal length with
\* strictly increasing x.
C7_ConstructionOutcome ==
    status # "unconstructed" =>
        IF Len(x_values) = Len(y_values) /\ Len(x_values) # 0 /\ StrictlyIncreasing(x_values)
        THEN status = "ready"
        ELSE status = "aborted" /\ q = NoQuery

\* C7 on the sizes for which FillIntervals stays inside y_values_
C7_ConstructionOutcomeInside ==
    (status # "unconstructed" /\ PastEnd(N) = {}) =>
        IF Len(x_values) = Len(y_values) /\ Len(x_values) # 0 /\ StrictlyIncreasing(x_values)
        THEN status = "ready"
        ELSE status = "aborted" /\ q = NoQuery

\* C8: a query changes neither the samples, nor the values, nor any node of
\* the tree, and a query repeated with the same (xmin, xmax) returns the
\* same result.
C8_QueriesReadOnlyIdempotent ==
    [][status = "ready" =>
            /\ x_values' = x_values
            /\ y_values' = y_values
            /\ intervals' = intervals
            /\ (q.op = "domain" /\ q'.op = "domain" /\ q'.a = q.a /\ q'.b = q.b)
                    => q'.mm = q.mm]_vars

\* C8 on the curves of two samples or more, where it holds
C8_QueriesReadOnlyIdempotentFrom2 ==
    [][(status = "ready" /\ N >= 2) =>
            /\ x_values' = x_values
            /\ y_values' = y_values
            /\ intervals' = intervals
            /\ (q.op = "domain" /\ q'.op = "domain" /\ q'.a = q.a /\ q'.b = q.b)
                    => q'.mm = q.mm]_vars

\* the gap-aware merge of two optional (min, max) pairs
RefMerge(a, b) ==
    LET mins == {p[1] : p \in {a, b} \ {None}}
        maxs == {p[2] : p \in {a, b} \ {None}}
    IN  IF mins = {} THEN None ELSE <<SetMin(mins), SetMax(maxs)>>

\* C9: after a construction with n > 1, the min_max of every node with
\* children is the gap-aware merge of the min_max of its children 2i+1 and
\* 2i+2, and the min_max of every bottom-level node is the gap-aware
\* (min, max) of the values in its own index range.
C9_TreeInvariant ==
    (status = "ready" /\ N > 1) =>
        \A i \in DOMAIN intervals :
            IF 2 * i + 2 \in DOMAIN intervals
            THEN intervals[i].min_max =
                    RefMerge(intervals[2 * i + 1].min_max, intervals[2 * i + 2].min_max)
            ELSE intervals[i].min_max =
                    ScanMinMax(intervals[i].lo_idx, intervals[i].hi_idx)

\* C9 on the sizes for which FillIntervals stays inside y_values_
C9_TreeInvariantInside ==
    (status = "ready" /\ N > 1 /\ PastEnd(N) = {}) =>
        \A i \in DOMAIN intervals :
            IF 2 * i + 2 \in DOMAIN intervals
            THEN intervals[i].min_max =
                    RefMerge(intervals[2 * i + 1].min_max, intervals[2 * i + 2].min_max)
            ELSE intervals[i].min_max =
                    ScanMinMax(intervals[i].lo_idx, intervals[i].hi_idx)

\* what GetMinMaxOverDomainInterval(xmin, xmax) returns when no other call
\* runs
AloneResults(xmin, xmax) ==
    {r.mm : r \in DomainOutcomes(x_values, y_values, intervals, xmin, xmax)}

\* the calls that return in this step return the result that the same call
\* returns when run alone
ReturnsAsAlone ==
    \A t \in Threads :
        (th[t].pc # "done" /\ th'[t].pc = "done") =>
            AloneResults(th'[t].xmin, th'[t].xmax) = {th'[t].mm}

\* a step writes neither the samples, nor the values, nor the tree, nor the
\* locals of more than one thread
WritesOwnLocalsOnly ==
    /\ x_values' = x_values
    /\ y_values' = y_values
    /\ intervals' = intervals
    /\ \E t \in Threads : \A u \in Threads \ {t} : th'[u] = th[u]

\* C10: in every interleaving of calls of GetMinMaxOverDomainInterval on
\* one curve, each call returns the result it returns when run alone, and
\* no step of a call writes the samples, the values, the tree or the locals
\* of another call.
C10_ConcurrentQueriesAreSafe ==
    [][status = "ready" => (WritesOwnLocalsOnly /\ ReturnsAsAlone)]_vars

\* the same, on the curves of two samples or more
C10_ConcurrentQueriesAreSafeFrom2 ==
    [][(status = "ready" /\ N >= 2) => (WritesOwnLocalsOnly /\ ReturnsAsAlone)]_vars

\* no step of a call writes the samples, the values, the tree or the locals
\* of another call, on every curve
C10_NoStepWritesSharedState ==
    [][status = "ready" => WritesOwnLocalsOnly]_vars

\* n rounded up to a power of two
RoundUpPow2(n) ==
    CHOOSE p \in {2 ^ j : j \in 0..n} :
        /\ p >= n
        /\ \A r \in {2 ^ j : j \in 0..n} : r >= n => p <= r

\* C11: after a construction with n > 1 the array has exactly M - 1 nodes,
\* M being n rounded up to a power of two; the root records (0, M - 1);
\* each node with children records a range that child 2i+1 and child 2i+2
\* split into its lower and its upper half, contiguous and of equal size;
\* and each bottom-level node records a range of exactly two indices.
C11_TreeShape ==
    (status = "ready" /\ N > 1) =>
        LET M == RoundUpPow2(N)
        IN  /\ DOMAIN intervals = 0 .. (M - 2)
            /\ intervals[0].lo_idx = 0
            /\ intervals[0].hi_idx = M - 1
            /\ \A i \in DOMAIN intervals :
                 IF 2 * i + 2 \in DOMAIN intervals
                 THEN LET child1 == intervals[2 * i + 1]
                          child2 == intervals[2 * i + 2]
                      IN  /\ child1.lo_idx = intervals[i].lo_idx
                          /\ child2.hi_idx = intervals[i].hi_idx
                          /\ child2.lo_idx = child1.hi_idx + 1
                          /\ child1.hi_idx - child1.lo_idx = child2.hi_idx - child2.lo_idx
                          /\ child1.lo_idx <= child1.hi_idx
                 ELSE intervals[i].hi_idx = intervals[i].lo_idx + 1

\* a tree of three levels built for a number of samples that is not a power
\* of two
C11_Witness ==
    /\ status = "ready"
    /\ N > 1
    /\ N # RoundUpPow2(N)
    /\ 6 \in DOMAIN intervals

\* the bottom-level nodes: the nodes without children
BottomLevel == {i \in DOMAIN intervals : 2 * i + 2 \notin DOMAIN intervals}

\* C12: the ranges FillIntervals gives the bottom-level nodes end at n - 1
\* or before, and the construction reads y_values_ at no index >= n.
C12_LeafRangesInsideValues ==
    status \in {"ready", "crashed"} =>
        /\ \A j \in yreads : j < N
        /\ (status = "ready" /\ N > 1) => \A i \in BottomLevel : intervals[i].hi_idx <= N - 1

\* C12 for the numbers of samples that are a power of two, where it holds
C12_LeafRangesInsideValuesPow2 ==
    (status \in {"ready", "crashed"} /\ N = RoundUpPow2(N)) =>
        /\ \A j \in yreads : j < N
        /\ (status = "ready" /\ N > 1) => \A i \in BottomLevel : intervals[i].hi_idx <= N - 1

\* every construction for a number of samples above 1 that is not a power
\* of two reads y_values_ past its end
C12_EveryOtherSizeReadsPastEnd ==
    (status \in {"ready", "crashed"} /\ N > 1 /\ N # RoundUpPow2(N)) =>
        \E j \in yreads : j >= N

\* the level of node i of the tree: 0 for the root, one more for a child
RECURSIVE LevelOf(_)
LevelOf(i) == IF i = 0 THEN 0 ELSE 1 + LevelOf((i - 1) \div 2)

\* the calls of the last query on the nodes of one level, and those of them
\* that recursed into both children
VisitsAt(level) == {j \in DOMAIN q.visits : LevelOf(q.visits[j].idx) = level}
SplitsAt(level) == {j \in VisitsAt(level) : q.visits[j].branch = "split"}
Levels == 0 .. MaxTreeN

\* the call returns after a descent that stays inside the tree: every call
\* is on a node of the array (on node 0 when the array is empty)
DescentInsideTree ==
    /\ Len(q.visits) >= 1
    /\ q.visits[1].idx = 0
    /\ \A j \in DOMAIN q.visits :
        /\ q.visits[j].branch # "wild"
        /\ j > 1 => q.visits[j].idx \in DOMAIN intervals

C14_IndexQueryPreconditions ==
    (status = "ready" /\ q.op # "none") =>
        /\ (q.op = "domain" /\ q.a > q.b) => q.visits = NoVisits
        /\ \A j \in DOMAIN q.visits :
            LET v == q.visits[j]
            IN  /\ 0 <= v.lo /\ v.lo <= v.hi /\ v.hi < N
                /\ j = 1 => v.idx = 0
                /\ j > 1 => /\ v.idx \in DOMAIN intervals
                            /\ intervals[v.idx].lo_idx <= v.lo
                            /\ v.hi <= intervals[v.idx].hi_idx

\* a call of GetMinMaxOverDomainInterval whose index query recursed into
\* both children of the root, with xmin and xmax between samples
C14_Witness ==
    /\ IsDomainQuery
    /\ Len(q.visits) >= 3
    /\ q.visits[1].branch = "split"
    /\ \A i \in 0 .. (N - 1) : X(i) # q.a /\ X(i) # q.b

\* a call of GetMinMaxOverDomainInterval with xmin > xmax, both inside the
\* domain of a curve of several samples
C14_WitnessReversed ==
    /\ IsDomainQuery
    /\ q.a > q.b
    /\ N >= 3
    /\ X(0) < q.b /\ q.a < X(N - 1)

\* C15: every index at which a query reads intervals_ is below the number
\* of nodes allocated, 2^ceil(log2 n) - 1, for every n >= 1.
C15_ReadsAllocatedNodesOnly ==
    (status = "ready" /\ q.op # "none") =>
        \A i \in q.reads : 0 <= i /\ i < Shl1(CeilingLog2(N)) - 1

\* C15 on the curves of two samples or more, where it holds
C15_ReadsAllocatedNodesOnlyFrom2 ==
    (status = "ready" /\ q.op # "none" /\ N >= 2) =>
        \A i \in q.reads : 0 <= i /\ i < Shl1(CeilingLog2(N)) - 1

\* on a curve of one sample every query that reaches the tree reads
\* intervals_[0], and no node is allocated
C15_OneSampleReadsNodeZero ==
    (status = "ready" /\ q.op # "none" /\ N = 1 /\ q.visits # NoVisits) =>
        (0 \in q.reads /\ DOMAIN intervals = {})

====
